---- MODULE Spec2Model ----
(***************************************************************************)
(* Model of tournamention's src/backend/schemas/guildsettings.ts:          *)
(*   - GuildSettings.getCurrentTournament, the selection of a guild's      *)
(*     current tournament from the Tournament collection (lines 6-28);     *)
(*   - the profile command: profileSlashCommandValidator, profileSolver    *)
(*     and the rendezvous pipeline that runs them (lines 94-176).          *)
(***************************************************************************)
EXTENDS Integers, Sequences, FiniteSets, TLC

VARIABLES
    store,        \* the Tournament collection, in the order the store returns it
    selGuild,     \* guildID of the GuildSettings getCurrentTournament was last called on
    selResult,    \* completion of that call
    reqNo,        \* profile requests received so far
    interaction,  \* the request being handled
    stage,        \* the pipeline's state for this request
    trace,        \* the stages invoked for this request, in order
    mapsCreated,  \* constraint Map objects constructed so far
    vmaps,        \* the validator's metadataConstraints and optionConstraints objects
    vpc,          \* the validator's position
    verr,         \* the error the validator's catch block caught
    vres,         \* the validator's completion
    spc,          \* the solver's position
    sparams,      \* the solver's params argument
    promise,      \* state of each promise the solver created
    pvalue,       \* <<value>> of each resolved promise, <<reason, "rejected">> of each rejected one
    lookups,      \* collaborator calls the solver issued, with their arguments
    unhandled,    \* promises that rejected while nothing awaited them
    sres,         \* the solver's completion
    outcome,      \* the request's final outcome
    described     \* the descriptions rendered for this request

selVars == <<selGuild, selResult>>

pipeVars == <<reqNo, interaction, stage, trace, mapsCreated, vmaps, vpc, verr,
              vres, spc, sparams, promise, pvalue, lookups, unhandled, sres,
              outcome, described>>

vars == <<store, selVars, pipeVars>>

-----------------------------------------------------------------------------
(* Bounds *)

\* Longest Tournament collection drawn for the selection algorithm.
MaxLen == 3

\* Number of distinct ObjectIds a tournament can carry.
MaxIds == 3

-----------------------------------------------------------------------------
(* Values *)

Guilds == {"g1", "g2"}

\* A tournament name: the empty string is the falsy one, as is a missing
\* name (undefined); both make `!name` true.
Undefined == "undefined"
Names == {Undefined, "", "alpha"}

ObjectIds == 1..MaxIds

\* ObjectId.getTimestamp().getTime(): the id's leading seconds field, in
\* milliseconds. Ids are numbered in generation order, two per second, so
\* distinct ids can share a timestamp.
getTime(id) == ((id + 1) \div 2) * 1000

\* A Tournament document (toObject() gives the same fields).
Tournaments == [_id : ObjectIds, name : Names, guildID : Guilds, active : BOOLEAN]

\* _id is unique in the collection.
DistinctIds(st) == \A i, j \in 1..Len(st) : i # j => st[i]._id # st[j]._id

\* JavaScript truthiness of a name.
Truthy(name) == name # "" /\ name # Undefined

\* Completion records of a call: it returns a value or throws.
\* An optional document is a sequence of length 0 (null) or 1.
Null == <<>>
\* Errors are objects with a name.
NoError == [name |-> "none"]
TypeError == [name |-> "TypeError"]
Return(v) == [kind |-> "return", value |-> v, error |-> NoError]
Throw(e) == [kind |-> "throw", value |-> Null, error |-> e]
NotCalled == [kind |-> "none", value |-> Null, error |-> NoError]

NoGuild == "none"

-----------------------------------------------------------------------------
(* GuildSettings.getCurrentTournament *)

\* TournamentModel.find({ guildID }): the guild's documents, in store order.
findAnyGuild(st, g) == st
find(st, g) == SelectSeq(st, LAMBDA t : t.guildID = g)

\* .filter(t => t.toObject().active)
filterActiveAll(ts) == ts
filterActive(ts) == SelectSeq(ts, LAMBDA t : t.active)

\* The reduce callback: prev is kept only when it has no name and a newer
\* timestamp; otherwise curr is taken.
reduceCallbackNewerOrEqual(prev, curr) ==
    IF ~Truthy(prev.name) /\ getTime(prev._id) >= getTime(curr._id)
    THEN prev ELSE curr
reduceCallback(prev, curr) ==
    IF ~Truthy(prev.name) /\ getTime(prev._id) > getTime(curr._id)
    THEN prev ELSE curr

\* Array.prototype.reduce's accumulator after the first i elements (i >= 1),
\* with no initial value: the first element seeds it.
RECURSIVE reduceUpTo(_, _)
reduceUpTo(ts, i) ==
    IF i = 1 THEN ts[1] ELSE reduceCallback(reduceUpTo(ts, i - 1), ts[i])

\* Array.prototype.reduce with no initial value: a TypeError on an empty array.
reduce(ts) ==
    IF Len(ts) = 0 THEN Throw(TypeError) ELSE Return(<<reduceUpTo(ts, Len(ts))>>)

\* The whole method: find, filter, reduce, then `activeTournament ? .. : null`.
getCurrentTournament(st, g) ==
    LET activeTournament == reduce(filterActive(find(st, g)))
    IN  IF activeTournament.kind = "throw" THEN activeTournament
        ELSE Return(activeTournament.value)

-----------------------------------------------------------------------------
(* The profile command: values *)

\* Profile requests handled in one behaviour.
MaxRequests == 2

\* Longest Tournament collection, and number of ObjectIds, under the pipeline.
SolverMaxLen == 1

Users == {"u1", "u2"}

\* interaction.options.get('user', false): null, or an option whose user may
\* be unresolved.
NoOption == <<>>
Options == {NoOption} \cup {<<[user |-> u]>> : u \in {Null} \cup {<<x>> : x \in Users}}

\* A LimitedCommandInteraction: guildId, member.user.id and the options.
Interactions == [guildId : Guilds, memberUserId : Users, option : Options]
NoInteraction == [guildId |-> NoGuild, memberUserId |-> "none", option |-> NoOption]

\* OutcomeStatus and ProfileSpecificStatus.
FAIL_UNKNOWN == "FAIL_UNKNOWN"
FAIL_VALIDATION == "FAIL_VALIDATION"
SUCCESS_DETAILS == "SUCCESS_DETAILS"

EmptyBody == <<>>
NoOutcome == [status |-> "none", body |-> EmptyBody]
NoParams == [guildId |-> NoGuild, memberId |-> "none"]

\* What validateConstraints can throw: OptionValidationErrors, and other errors.
OptionValidationErrors ==
    { [name |-> "OptionValidationError", constraint |-> "isMember", field |-> "user",
       value |-> "u9", message |-> "not a member of this guild"],
      [name |-> "OptionValidationError", constraint |-> "inGuild", field |-> "guildId",
       value |-> "g9", message |-> "unknown guild"] }
OtherErrors == { [name |-> "RangeError", message |-> "unexpected"] }

\* The completions of `await validateConstraints(...)`: it returns nothing or throws.
ValidateCompletions ==
    {Return(Null)} \cup {Throw(e) : e \in OptionValidationErrors \cup OtherErrors}

\* err instanceof OptionValidationError
IsOptionValidationError(err) == err.name = "OptionValidationError"

\* The promises profileSolver creates, by the collaborator call behind each.
PromiseNames ==
    {"client", "guild", "member", "contestant", "career", "tournament", "current"}

DisplayNames == {"Ann"}
AvatarURLs == {Null, <<"https://cdn/avatar.png">>}
DefaultIcon == "https://static.wikia.nocookie.net/minecraft_gamepedia/images/0/02/Pointer_%28texture%29_JE1_BE1.png"
PointValues == {0, 7}
CollaboratorError == [name |-> "Error", message |-> "collaborator failed"]

\* new Promise(resolve => resolve(-1)): the placeholder without a tournament.
NoTournamentPoints == 0 - 1

-----------------------------------------------------------------------------
(* profileSlashCommandValidator *)

\* The params returned after validation: guildId, and the 'user' option's
\* user id, or the invoking member's when there is none (?. and ??).
ValidatorParamsInvokerOnly(i) ==
    [guildId |-> i.guildId, memberId |-> i.memberUserId]
ValidatorParams(i) ==
    LET optionUserId ==
            IF i.option = NoOption THEN Null
            ELSE IF i.option[1].user = Null THEN Null
            ELSE i.option[1].user
    IN  [guildId  |-> i.guildId,
         memberId |-> IF optionUserId = Null THEN i.memberUserId ELSE optionUserId[1]]

\* The outcome built from a caught OptionValidationError.
ValidationErrorOutcomeSwapped(err) ==
    [status |-> FAIL_VALIDATION,
     body |-> [constraint |-> err.field, field |-> err.constraint,
               value |-> err.value, context |-> err.message]]
ValidationErrorOutcome(err) ==
    [status |-> FAIL_VALIDATION,
     body |-> [constraint |-> err.constraint, field |-> err.field,
               value |-> err.value, context |-> err.message]]

\* The catch block: an OptionValidationError becomes an outcome, anything
\* else is thrown again.
ValidatorCatchAll(err) ==
    Return(<<[status |-> FAIL_VALIDATION,
              body |-> [constraint |-> Undefined, field |-> Undefined,
                        value |-> Undefined, context |-> err.message]]>>)
ValidatorCatch(err) ==
    IF IsOptionValidationError(err)
    THEN Return(<<ValidationErrorOutcome(err)>>)
    ELSE Throw(err)

\* The validator's completion, given that of validateConstraints.
ValidatorCompletion(i, c) ==
    IF c.kind = "throw" THEN ValidatorCatch(c.error) ELSE Return(<<ValidatorParams(i)>>)

\* The validator builds two new Map objects on every call (lines 128-129).
NoMaps == [metadataConstraints |-> 0, optionConstraints |-> 0]
NewMapsShared(n) == [metadataConstraints |-> 1, optionConstraints |-> 2]
NewMaps(n) == [metadataConstraints |-> n + 1, optionConstraints |-> n + 2]

\* A returned value is an outcome when it carries a status.
IsOutcome(v) == "status" \in DOMAIN v

-----------------------------------------------------------------------------
(* profileSolver *)

\* The outcome of the catch block and the code after it (lines 117-124).
FailUnknownOutcome == [status |-> FAIL_UNKNOWN, body |-> EmptyBody]

\* The success outcome (lines 106-116); avatarURL() may be null.
SuccessDetailsOutcome(currentPoints, careerPoints, member) ==
    [status |-> SUCCESS_DETAILS,
     body |-> [currentPoints |-> currentPoints,
               careerPoints  |-> careerPoints,
               userDetails   |-> [name |-> member.displayName,
                                  icon |-> IF member.avatar = Null THEN DefaultIcon
                                           ELSE member.avatar[1]]]]

\* What the try/catch makes of an error raised in the body.
SolverCatchRethrow(err) == Throw(err)
SolverCatchLeaky(err) ==
    Return(<<[status |-> FAIL_UNKNOWN, body |-> [context |-> err.name]]>>)
SolverCatch(err) == Return(<<FailUnknownOutcome>>)

\* The arguments of each collaborator call.
CallArgs(p, params, contestant, tournament) ==
    CASE p = "client"     -> <<>>
      [] p = "guild"      -> <<params.guildId>>
      [] p = "member"     -> <<params.memberId>>
      [] p = "contestant" -> <<params.guildId, params.memberId>>
      [] p = "career"     -> <<contestant.guildID, contestant.userID>>
      [] p = "tournament" -> <<params.guildId>>
      [] p = "current"    -> <<contestant.guildID, contestant.userID, tournament._id>>

Lookup(p, args) == [call |-> p, args |-> args]

\* The lookup issued for promise p, if any.
ArgsOf(p) == (CHOOSE l \in lookups : l.call = p).args

\* getCurrentTournament(guildId) of guildSettingsQueries: the guild's
\* GuildSettings.getCurrentTournament over the stored collection.
queryCurrentTournament(g) == getCurrentTournament(store, g)

\* The values a pending promise can resolve with.
Resolutions(p) ==
    CASE p = "client"     -> {<<"client">>}
      [] p = "guild"      -> {<<[id |-> ArgsOf(p)[1]]>>}
      [] p = "member"     -> {<<[id |-> ArgsOf(p)[1], displayName |-> n, avatar |-> a]>> :
                                n \in DisplayNames, a \in AvatarURLs}
      [] p = "contestant" -> {<<[guildID |-> ArgsOf(p)[1], userID |-> ArgsOf(p)[2]]>>}
      [] p = "career"     -> {<<n>> : n \in PointValues}
      [] p = "tournament" -> LET r == queryCurrentTournament(ArgsOf(p)[1])
                             IN  IF r.kind = "return" THEN {r.value} ELSE {}
      [] p = "current"    -> {<<n>> : n \in PointValues}

\* The reasons a pending promise can reject with.
Rejections(p) ==
    IF p = "tournament" /\ queryCurrentTournament(ArgsOf(p)[1]).kind = "throw"
    THEN {queryCurrentTournament(ArgsOf(p)[1]).error, CollaboratorError}
    ELSE {CollaboratorError}

\* The promise the solver is suspended on.
AwaitedPromise ==
    CASE spc = "awaitClient"     -> "client"
      [] spc = "awaitGuild"      -> "guild"
      [] spc = "awaitContestant" -> "contestant"
      [] spc = "awaitTournament" -> "tournament"
      [] spc = "awaitCurrent"    -> "current"
      [] spc = "awaitCareer"     -> "career"
      [] spc = "awaitMember"     -> "member"
      [] OTHER                   -> "none"

Settled(p) == promise[p] \in {"resolved", "rejected"}

NoPromises == [p \in PromiseNames |-> "none"]
NoValues == [p \in PromiseNames |-> Null]

\* A collaborator answers: the promise resolves or rejects. A rejection
\* that nothing awaits at that moment is an unhandled rejection.
Settle(p) ==
    /\ promise[p] = "pending"
    /\ \/ \E v \in Resolutions(p) :
            /\ promise' = [promise EXCEPT ![p] = "resolved"]
            /\ pvalue' = [pvalue EXCEPT ![p] = v]
            /\ UNCHANGED unhandled
       \/ \E e \in Rejections(p) :
            /\ promise' = [promise EXCEPT ![p] = "rejected"]
            /\ pvalue' = [pvalue EXCEPT ![p] = <<e, "rejected">>]
            /\ unhandled' = IF AwaitedPromise = p THEN unhandled ELSE unhandled \cup {p}
    /\ UNCHANGED <<store, selVars, reqNo, interaction, stage, trace, mapsCreated,
                   vmaps, vpc, verr, vres, spc, sparams, lookups, sres, outcome,
                   described>>

\* The same, had the catch block swallowed the error without returning.
SolverFailsHanging(p) ==
    /\ UNCHANGED <<sres, spc, promise, lookups>>

\* An await that throws: control goes to the catch block and the solver returns.
SolverFails(p) ==
    /\ sres' = SolverCatch(pvalue[p][1])
    /\ spc' = "done"
    /\ UNCHANGED <<promise, lookups>>

\* The solver issues the call behind promise p.
Issue(ps, contestant, tournament) ==
    /\ promise' = [p \in PromiseNames |-> IF p \in ps THEN "pending" ELSE promise[p]]
    /\ lookups' = lookups \cup
                    {Lookup(p, CallArgs(p, sparams, contestant, tournament)) : p \in ps}

SolverFrame ==
    UNCHANGED <<store, selVars, reqNo, interaction, stage, trace, mapsCreated,
                vmaps, vpc, verr, vres, sparams, unhandled, outcome, described>>

NoContestant == [guildID |-> NoGuild, userID |-> "none"]
NoTournament == [_id |-> 0]

\* Line 96: `await TournamentionClient.getInstance()` resumes; guilds.fetch is called.
SolverAfterClient ==
    /\ spc = "awaitClient" /\ Settled("client")
    /\ IF promise["client"] = "rejected" THEN SolverFails("client")
       ELSE /\ Issue({"guild"}, NoContestant, NoTournament)
            /\ spc' = "awaitGuild"
            /\ UNCHANGED sres
    /\ UNCHANGED pvalue
    /\ SolverFrame

\* Lines 97-98: `await guild` resumes; members.fetch and getOrCreateContestant are called.
SolverAfterGuild ==
    /\ spc = "awaitGuild" /\ Settled("guild")
    /\ IF promise["guild"] = "rejected" THEN SolverFails("guild")
       ELSE /\ Issue({"member", "contestant"}, NoContestant, NoTournament)
            /\ spc' = "awaitContestant"
            /\ UNCHANGED sres
    /\ UNCHANGED pvalue
    /\ SolverFrame

\* The same step had the member fetch been awaited before going on.
SolverAfterContestantSerial ==
    /\ spc = "awaitContestant" /\ Settled("contestant") /\ Settled("member")
    /\ IF promise["contestant"] = "rejected" THEN SolverFails("contestant")
       ELSE /\ Issue({"career", "tournament"}, pvalue["contestant"][1], NoTournament)
            /\ spc' = "awaitTournament"
            /\ UNCHANGED sres
    /\ UNCHANGED pvalue
    /\ SolverFrame

\* Lines 98-102: the contestant arrives; career points and the current
\* tournament are asked for.
SolverAfterContestant ==
    /\ spc = "awaitContestant" /\ Settled("contestant")
    /\ IF promise["contestant"] = "rejected" THEN SolverFails("contestant")
       ELSE /\ Issue({"career", "tournament"}, pvalue["contestant"][1], NoTournament)
            /\ spc' = "awaitTournament"
            /\ UNCHANGED sres
    /\ UNCHANGED pvalue
    /\ SolverFrame

\* Lines 102-109: the current tournament arrives; with one, its points are
\* asked for, without one currentPoints is already resolved with -1.
SolverAfterTournament ==
    /\ spc = "awaitTournament" /\ Settled("tournament")
    /\ IF promise["tournament"] = "rejected"
       THEN SolverFails("tournament") /\ UNCHANGED pvalue
       ELSE IF pvalue["tournament"] # Null
       THEN /\ Issue({"current"}, pvalue["contestant"][1], pvalue["tournament"][1])
            /\ spc' = "awaitCurrent"
            /\ UNCHANGED <<sres, pvalue>>
       ELSE /\ promise' = [promise EXCEPT !["current"] = "resolved"]
            /\ pvalue' = [pvalue EXCEPT !["current"] = <<NoTournamentPoints>>]
            /\ spc' = "awaitCurrent"
            /\ UNCHANGED <<sres, lookups>>
    /\ SolverFrame

\* Line 109: `await currentPoints` resumes.
SolverAfterCurrent ==
    /\ spc = "awaitCurrent" /\ Settled("current")
    /\ IF promise["current"] = "rejected" THEN SolverFails("current")
       ELSE spc' = "awaitCareer" /\ UNCHANGED <<sres, promise, lookups>>
    /\ UNCHANGED pvalue
    /\ SolverFrame

\* Line 110: `await careerPoints` resumes.
SolverAfterCareer ==
    /\ spc = "awaitCareer" /\ Settled("career")
    /\ IF promise["career"] = "rejected" THEN SolverFails("career")
       ELSE spc' = "awaitMember" /\ UNCHANGED <<sres, promise, lookups>>
    /\ UNCHANGED pvalue
    /\ SolverFrame

\* Lines 112-116: `await member` resumes (twice) and the success outcome is returned.
SolverAfterMember ==
    /\ spc = "awaitMember" /\ Settled("member")
    /\ IF promise["member"] = "rejected" THEN SolverFails("member")
       ELSE /\ sres' = Return(<<SuccessDetailsOutcome(pvalue["current"][1],
                                                      pvalue["career"][1],
                                                      pvalue["member"][1])>>)
            /\ spc' = "done"
            /\ UNCHANGED <<promise, lookups>>
    /\ UNCHANGED pvalue
    /\ SolverFrame

-----------------------------------------------------------------------------
(* The rendezvous pipeline that runs the profile command's stages *)

\* The per-request state before a request: nothing invoked yet.
FreshRequest ==
    /\ trace = <<>>
    /\ vmaps = NoMaps
    /\ vpc = "idle"
    /\ verr = NoError
    /\ vres = NotCalled
    /\ spc = "idle"
    /\ sparams = NoParams
    /\ promise = NoPromises
    /\ pvalue = NoValues
    /\ lookups = {}
    /\ unhandled = {}
    /\ sres = NotCalled
    /\ outcome = NoOutcome
    /\ described = <<>>

PipeIdle ==
    /\ reqNo = 0
    /\ interaction = NoInteraction
    /\ stage = "Idle"
    /\ mapsCreated = 0
    /\ FreshRequest

\* A request arrives; each request gets a fresh run: no state persists from
\* the one before.
NewRequest(i) ==
    /\ stage \in {"Idle", "Terminal", "Fatal"}
    /\ reqNo < MaxRequests
    /\ reqNo' = reqNo + 1
    /\ interaction' = i
    /\ stage' = "Pending"
    /\ trace' = <<>>
    /\ vmaps' = NoMaps
    /\ vpc' = "idle"
    /\ verr' = NoError
    /\ vres' = NotCalled
    /\ spc' = "idle"
    /\ sparams' = NoParams
    /\ promise' = NoPromises
    /\ pvalue' = NoValues
    /\ lookups' = {}
    /\ unhandled' = {}
    /\ sres' = NotCalled
    /\ outcome' = NoOutcome
    /\ described' = <<>>
    /\ UNCHANGED <<store, selVars, mapsCreated>>

\* The validation stage is invoked: the validator builds its two constraint
\* maps and calls validateConstraints (lines 127-132).
OrchValidate ==
    /\ stage = "Pending"
    /\ stage' = "Validating"
    /\ trace' = Append(trace, "validate")
    /\ vmaps' = NewMaps(mapsCreated)
    /\ mapsCreated' = mapsCreated + 2
    /\ vpc' = "awaitValidate"
    /\ UNCHANGED <<store, selVars, reqNo, interaction, verr, vres, spc, sparams,
                   promise, pvalue, lookups, unhandled, sres, outcome, described>>

\* `await validateConstraints(...)` resumes and the validator completes
\* (lines 131-151).
ValidatorResume(c) ==
    /\ vpc = "awaitValidate"
    /\ verr' = c.error
    /\ vres' = ValidatorCompletion(interaction, c)
    /\ vpc' = "done"
    /\ UNCHANGED <<store, selVars, reqNo, interaction, stage, trace, mapsCreated,
                   vmaps, spc, sparams, promise, pvalue, lookups, unhandled, sres,
                   outcome, described>>

\* Where the pipeline goes with the validator's completion r: a thrown error
\* is fatal, a failure outcome skips the solver, params go on to it.
StageAfterValidationSkipSolver(r) ==
    IF r.kind = "throw" THEN "Fatal"
    ELSE IF IsOutcome(r.value[1]) THEN "ValidationFailed"
    ELSE "Resolved"
StageAfterValidation(r) ==
    IF r.kind = "throw" THEN "Fatal"
    ELSE IF IsOutcome(r.value[1]) THEN "ValidationFailed"
    ELSE "Validated"

OrchAfterValidation ==
    /\ stage = "Validating" /\ vpc = "done"
    /\ stage' = StageAfterValidation(vres)
    /\ outcome' = IF vres.kind = "return" /\ IsOutcome(vres.value[1])
                  THEN vres.value[1] ELSE outcome
    /\ UNCHANGED <<store, selVars, reqNo, interaction, trace, mapsCreated, vmaps,
                   vpc, verr, vres, spc, sparams, promise, pvalue, lookups,
                   unhandled, sres, described>>

\* The solver stage is invoked with the validated params; profileSolver runs
\* to its first await (line 96).
OrchSolve ==
    /\ stage = "Validated"
    /\ stage' = "Solving"
    /\ trace' = Append(trace, "solve")
    /\ sparams' = vres.value[1]
    /\ promise' = [promise EXCEPT !["client"] = "pending"]
    /\ lookups' = {Lookup("client", CallArgs("client", vres.value[1],
                                             NoContestant, NoTournament))}
    /\ spc' = "awaitClient"
    /\ UNCHANGED <<store, selVars, reqNo, interaction, mapsCreated, vmaps, vpc,
                   verr, vres, pvalue, unhandled, sres, outcome, described>>

\* The solver has completed: its outcome is the request's, an escaped error is fatal.
OrchAfterSolver ==
    /\ stage = "Solving" /\ spc = "done"
    /\ IF sres.kind = "throw"
       THEN stage' = "Fatal" /\ UNCHANGED outcome
       ELSE stage' = "Resolved" /\ outcome' = sres.value[1]
    /\ UNCHANGED <<store, selVars, reqNo, interaction, trace, mapsCreated, vmaps,
                   vpc, verr, vres, spc, sparams, promise, pvalue, lookups,
                   unhandled, sres, described>>

\* profileSlashCommandDescriptions holds a renderer for SUCCESS_DETAILS only
\* (lines 153-166); other statuses fall back to the shared renderer.
Describe(o) ==
    [key |-> o.status,
     by  |-> IF o.status = SUCCESS_DETAILS THEN "command" ELSE "generic"]

\* The description stage is invoked, keyed by the outcome's status.
OrchDescribe ==
    /\ stage \in {"ValidationFailed", "Resolved"}
    /\ stage' = "Describing"
    /\ trace' = Append(trace, "describe")
    /\ described' = Append(described, Describe(outcome))
    /\ UNCHANGED <<store, selVars, reqNo, interaction, mapsCreated, vmaps, vpc,
                   verr, vres, spc, sparams, promise, pvalue, lookups, unhandled,
                   sres, outcome>>

\* The described outcome is handed back: the run is over.
OrchFinish ==
    /\ stage = "Describing"
    /\ stage' = "Terminal"
    /\ UNCHANGED <<store, selVars, reqNo, interaction, trace, mapsCreated, vmaps,
                   vpc, verr, vres, spc, sparams, promise, pvalue, lookups,
                   unhandled, sres, outcome, described>>

\* The Tournament collections drawn under the pipeline.
SolverTournaments == {t \in Tournaments : t._id <= SolverMaxLen /\ Truthy(t.name)}

Init ==
    /\ \E n \in 0..SolverMaxLen : store \in [1..n -> SolverTournaments]
    /\ DistinctIds(store)
    /\ selGuild = NoGuild
    /\ selResult = NotCalled
    /\ PipeIdle

Next ==
    \/ \E i \in Interactions : NewRequest(i)
    \/ OrchValidate
    \/ \E c \in ValidateCompletions : ValidatorResume(c)
    \/ OrchAfterValidation
    \/ OrchSolve
    \/ \E p \in PromiseNames : Settle(p)
    \/ SolverAfterClient
    \/ SolverAfterGuild
    \/ SolverAfterContestant
    \/ SolverAfterTournament
    \/ SolverAfterCurrent
    \/ SolverAfterCareer
    \/ SolverAfterMember
    \/ OrchAfterSolver
    \/ OrchDescribe
    \/ OrchFinish

Spec == Init /\ [][Next]_vars

\* The scheduling of one run: a collaborator call that is pending settles,
\* and a continuation whose awaited promise has settled is run by the event
\* loop.
Fairness ==
    /\ \A p \in PromiseNames : WF_vars(Settle(p))
    /\ WF_vars(SolverAfterClient)
    /\ WF_vars(SolverAfterGuild)
    /\ WF_vars(SolverAfterContestant)
    /\ WF_vars(SolverAfterTournament)
    /\ WF_vars(SolverAfterCurrent)
    /\ WF_vars(SolverAfterCareer)
    /\ WF_vars(SolverAfterMember)

FairSpec == Spec /\ Fairness

-----------------------------------------------------------------------------
(* Selection specification: the collection is drawn, the method is called *)

SelInit ==
    /\ \E n \in 0..MaxLen : store \in [1..n -> Tournaments]
    /\ DistinctIds(store)
    /\ selGuild = NoGuild
    /\ selResult = NotCalled
    /\ PipeIdle

\* The same call, had it written the selection back by deactivating the
\* guild's other tournaments.
CallGetCurrentTournamentWriting(g) ==
    /\ selGuild' = g
    /\ selResult' = getCurrentTournament(store, g)
    /\ store' = [i \in 1..Len(store) |->
                    IF /\ store[i].guildID = g
                       /\ selResult'.value # <<store[i]>>
                    THEN [store[i] EXCEPT !.active = FALSE]
                    ELSE store[i]]
    /\ UNCHANGED pipeVars

\* A call of getCurrentTournament on the GuildSettings of guild g.
CallGetCurrentTournament(g) ==
    /\ selGuild' = g
    /\ selResult' = getCurrentTournament(store, g)
    /\ UNCHANGED <<store, pipeVars>>

SelNext == \E g \in Guilds : CallGetCurrentTournament(g)

SelSpec == SelInit /\ [][SelNext]_vars

-----------------------------------------------------------------------------
(* Claims about the selection *)

\* The active records of guild g, as a set: what the claims speak of.
ActiveSet(g) ==
    {store[i] : i \in {j \in 1..Len(store) : store[j].guildID = g /\ store[j].active}}

Called == selGuild # NoGuild

\* The record of a non-empty set with the latest creation timestamp.
Latest(S) == CHOOSE t \in S : \A u \in S : getTime(t._id) >= getTime(u._id)

\* The comparisons the reduction of the last call performed, as
\* <<prev, curr, kept>> triples.
ComparisonsOfCall ==
    LET active == filterActive(find(store, selGuild))
    IN  {<<reduceUpTo(active, i - 1), active[i], reduceUpTo(active, i)>> :
            i \in 2..Len(active)}

\* C1: called for a guild with no active tournament (no records at all
\* included), getCurrentTournament completes normally with null.
C1_NoActiveReturnsNull ==
    (Called /\ ActiveSet(selGuild) = {}) => selResult = Return(Null)

\* C2: with exactly two active tournaments, both named and created at
\* distinct times, the later-created one is returned, whatever the store order.
C2_TwoNamedLaterWins ==
    (/\ Called
     /\ Cardinality(ActiveSet(selGuild)) = 2
     /\ \A t \in ActiveSet(selGuild) : Truthy(t.name)
     /\ \A t, u \in ActiveSet(selGuild) : t # u => getTime(t._id) # getTime(u._id))
    => selResult = Return(<<Latest(ActiveSet(selGuild))>>)

\* C3: in every comparison of the reduction, a tournament without a name is
\* never kept when the other one has a name, in either prev/curr position.
C3_UnnamedNeverBeatsNamed ==
    Called =>
        \A c \in ComparisonsOfCall :
            LET other == IF c[3] = c[1] THEN c[2] ELSE c[1]
            IN  ~(~Truthy(c[3].name) /\ Truthy(other.name))

\* C4: with exactly one active tournament (and any inactive ones, in any
\* order), that record is returned unchanged, named or not.
C4_SingleActiveReturned ==
    (Called /\ Cardinality(ActiveSet(selGuild)) = 1)
    => \E t \in ActiveSet(selGuild) : selResult = Return(<<t>>)

\* C4's case: one unnamed active tournament stored between inactive ones of
\* the same guild, and the call returned it.
C4_Witness ==
    /\ Called
    /\ Len(store) = 3
    /\ store[2].guildID = selGuild /\ store[2].active /\ ~Truthy(store[2].name)
    /\ store[1].guildID = selGuild /\ ~store[1].active
    /\ store[3].guildID = selGuild /\ ~store[3].active
    /\ selResult = Return(<<store[2]>>)

-----------------------------------------------------------------------------
(* Claims about the profile command *)

\* The validator returned solver params.
ValidatorReturnedParams ==
    vpc = "done" /\ vres.kind = "return" /\ ~IsOutcome(vres.value[1])

\* The validator returned an outcome.
ValidatorReturnedOutcome ==
    vpc = "done" /\ vres.kind = "return" /\ IsOutcome(vres.value[1])

\* C5: whichever collaborator call fails (client instance, guild fetch,
\* member fetch, getOrCreateContestant, career points, getCurrentTournament,
\* current-tournament points), profileSolver does not raise: it returns
\* FAIL_UNKNOWN with an empty body.
C5_SolverFailureIsFailUnknown ==
    /\ sres.kind # "throw"
    /\ (spc = "done" /\ \E p \in PromiseNames : promise[p] = "rejected")
       => sres = Return(<<[status |-> "FAIL_UNKNOWN", body |-> <<>>]>>)

\* C5's case: every call succeeded but the member fetch, awaited last, and
\* the solver returned.
C5_Witness ==
    /\ spc = "done"
    /\ promise["member"] = "rejected"
    /\ \A p \in PromiseNames \ {"member"} : promise[p] = "resolved"
    /\ sres.kind = "return"

\* C6: when validateConstraints fails with an OptionValidationError, the
\* validator returns FAIL_VALIDATION carrying exactly that error's constraint,
\* field, value and message (as context), and no solver params.
C6_ValidationErrorBecomesOutcome ==
    (vpc = "done" /\ verr.name = "OptionValidationError")
    => vres = Return(<<[status |-> "FAIL_VALIDATION",
                        body |-> [constraint |-> verr.constraint,
                                  field      |-> verr.field,
                                  value      |-> verr.value,
                                  context    |-> verr.message]]>>)

\* C6's case: the engine threw an OptionValidationError and the validator completed.
C6_Witness ==
    /\ vpc = "done"
    /\ verr \in OptionValidationErrors
    /\ vres.kind = "return"

\* C7: when validation raises an error that is not an OptionValidationError,
\* the validator returns neither an outcome nor params: the same error
\* reaches the pipeline, and the solver is not run on that request.
C7_OtherErrorPropagates ==
    (vpc = "done" /\ verr # NoError /\ verr.name # "OptionValidationError")
    => /\ vres = Throw(verr)
       /\ spc = "idle"
       /\ sres = NotCalled
       /\ "solve" \notin {trace[k] : k \in 1..Len(trace)}
       /\ stage \in {"Validating", "Fatal"}

\* C7's case: the engine threw another error and the request ended fatally.
C7_Witness ==
    /\ vpc = "done"
    /\ verr \in OtherErrors
    /\ vres.kind = "throw"
    /\ stage = "Fatal"

\* C8: after validation, params.memberId is the invoking member's user id
\* when no 'user' option is supplied and the option's user id when one is;
\* the solver's lookups use params.guildId and params.memberId, no other id.
C8_MemberIdDefaultsAndIsUsed ==
    /\ ValidatorReturnedParams =>
          /\ vres.value[1].guildId = interaction.guildId
          /\ interaction.option = NoOption
                => vres.value[1].memberId = interaction.memberUserId
          /\ (interaction.option # NoOption /\ interaction.option[1].user # Null)
                => vres.value[1].memberId = interaction.option[1].user[1]
    /\ \A l \in lookups :
          /\ l.call = "guild" => l.args = <<sparams.guildId>>
          /\ l.call = "member" => l.args = <<sparams.memberId>>
          /\ l.call = "contestant" => l.args = <<sparams.guildId, sparams.memberId>>
          /\ l.call = "tournament" => l.args = <<sparams.guildId>>
          /\ l.call \in {"career", "current"} =>
                (l.args[1] = sparams.guildId /\ l.args[2] = sparams.memberId)

\* C8's case: a request naming another user ran through the solver, whose
\* member fetch and contestant lookup were issued for that user.
C8_Witness ==
    /\ interaction.option # NoOption
    /\ interaction.option[1].user # Null
    /\ interaction.option[1].user[1] # interaction.memberUserId
    /\ spc = "done"
    /\ sres.kind = "return" /\ sres.value[1].status = "SUCCESS_DETAILS"
    /\ Lookup("member", <<interaction.option[1].user[1]>>) \in lookups
    /\ Lookup("contestant", <<interaction.guildId, interaction.option[1].user[1]>>) \in lookups

\* C9: within one request the stages run in the order validate, solve,
\* describe: the solver starts only after validation returned params, never
\* after a FAIL_VALIDATION outcome, and description runs once, after the final
\* outcome exists, keyed by its status.
C9_StageOrder ==
    /\ trace \in {<<>>, <<"validate">>, <<"validate", "solve">>,
                  <<"validate", "solve", "describe">>, <<"validate", "describe">>}
    /\ spc # "idle" => (ValidatorReturnedParams /\ sparams = vres.value[1])
    /\ ValidatorReturnedOutcome =>
          (spc = "idle" /\ trace \in {<<"validate">>, <<"validate", "describe">>})
    /\ Len(described) <= 1
    /\ described # <<>> =>
          /\ outcome # NoOutcome
          /\ described[1].key = outcome.status
          /\ ValidatorReturnedParams =>
                (spc = "done" /\ sres = Return(<<outcome>>)
                 /\ trace = <<"validate", "solve", "describe">>)
          /\ ValidatorReturnedOutcome => vres = Return(<<outcome>>)

\* C9's case: a request went through all three stages and ended.
C9_Witness ==
    /\ stage = "Terminal"
    /\ trace = <<"validate", "solve", "describe">>
    /\ described = <<[key |-> "SUCCESS_DETAILS", by |-> "command"]>>

\* The body shape each status fixes.
ShapeOf(o) ==
    CASE o.status = "FAIL_UNKNOWN" -> DOMAIN o.body = {}
      [] o.status = "FAIL_VALIDATION" ->
            DOMAIN o.body = {"constraint", "field", "value", "context"}
      [] o.status = "SUCCESS_DETAILS" ->
            /\ DOMAIN o.body = {"currentPoints", "careerPoints", "userDetails"}
            /\ o.body.currentPoints \in Int
            /\ o.body.careerPoints \in Int
            /\ DOMAIN o.body.userDetails = {"name", "icon"}
      [] OTHER -> FALSE

\* C10: every outcome the validator or the solver produces has the body its
\* status fixes: empty for FAIL_UNKNOWN; constraint, field, value, context for
\* FAIL_VALIDATION; currentPoints, careerPoints, userDetails (name, icon) for
\* SUCCESS_DETAILS.
C10_StatusFixesBody ==
    /\ ValidatorReturnedOutcome =>
          (vres.value[1].status = "FAIL_VALIDATION" /\ ShapeOf(vres.value[1]))
    /\ (spc = "done" /\ sres.kind = "return") =>
          (sres.value[1].status \in {"FAIL_UNKNOWN", "SUCCESS_DETAILS"}
           /\ ShapeOf(sres.value[1]))
    /\ outcome # NoOutcome => ShapeOf(outcome)

\* C10's case: the solver produced a FAIL_UNKNOWN outcome after a failed lookup.
C10_Witness ==
    /\ spc = "done"
    /\ sres.kind = "return"
    /\ sres.value[1].status = "FAIL_UNKNOWN"
    /\ promise["contestant"] = "rejected"


\* C11: the member fetch, the career-points lookup and the current-points
\* lookup are each issued without waiting for the others (all three can be
\* pending together), and SUCCESS_DETAILS is returned only after all three
\* resolved, its body holding their results.
C11_LookupsConcurrentThenJoined ==
    /\ (spc = "awaitContestant" /\ promise["contestant"] = "resolved")
          => ENABLED SolverAfterContestant
    /\ (spc = "awaitTournament" /\ promise["tournament"] = "resolved")
          => ENABLED SolverAfterTournament
    /\ promise["current"] = "pending" => promise["career"] # "none"
    /\ promise["career"] # "none" => promise["member"] # "none"
    /\ (spc = "done" /\ sres.kind = "return"
        /\ sres.value[1].status = "SUCCESS_DETAILS") =>
          /\ \A p \in {"member", "career", "current"} : promise[p] = "resolved"
          /\ sres.value[1].body.currentPoints = pvalue["current"][1]
          /\ sres.value[1].body.careerPoints = pvalue["career"][1]
          /\ sres.value[1].body.userDetails.name = pvalue["member"][1].displayName

\* C11's case: the three lookups are pending at the same time.
C11_Witness ==
    /\ promise["member"] = "pending"
    /\ promise["career"] = "pending"
    /\ promise["current"] = "pending"
    /\ spc = "awaitCurrent"


-----------------------------------------------------------------------------
(* Further claims about the selection *)

\* The positions of guild g's active records in the store.
ActiveIdx(g) == {i \in 1..Len(store) : store[i].guildID = g /\ store[i].active}

\* Guild g's active records in store order.
ActiveSeq(g) ==
    [k \in 1..Cardinality(ActiveIdx(g)) |->
        store[CHOOSE i \in ActiveIdx(g) :
                 Cardinality({j \in ActiveIdx(g) : j <= i}) = k]]

\* The step the claim words: keep prev iff prev has an empty or missing name
\* and a strictly greater creation timestamp; otherwise take curr.
FoldStep(prev, curr) ==
    IF prev.name \in {"", Undefined} /\ getTime(prev._id) > getTime(curr._id)
    THEN prev ELSE curr

\* The left fold of a non-empty sequence under that step.
RECURSIVE FoldLeft(_)
FoldLeft(seq) ==
    IF Len(seq) = 1 THEN seq[1]
    ELSE FoldStep(FoldLeft(SubSeq(seq, 1, Len(seq) - 1)), seq[Len(seq)])

\* C12: for every non-empty sequence of active tournaments in store order
\* the result is the left fold under 'keep prev iff prev is unnamed and
\* strictly newer, otherwise take curr'; on equal timestamps, or whenever
\* prev has a name, curr is taken.
C12_ResultIsLeftFold ==
    (Called /\ ActiveIdx(selGuild) # {}) =>
        /\ selResult = Return(<<FoldLeft(ActiveSeq(selGuild))>>)
        /\ \A c \in ComparisonsOfCall :
              (Truthy(c[1].name) \/ getTime(c[1]._id) = getTime(c[2]._id))
                 => c[3] = c[2]

\* C12's case: three active tournaments, the first unnamed and the newest,
\* kept through both comparisons.
C12_Witness ==
    /\ Called
    /\ Len(ActiveSeq(selGuild)) = 3
    /\ ~Truthy(ActiveSeq(selGuild)[1].name)
    /\ selResult = Return(<<ActiveSeq(selGuild)[1]>>)


\* The orderings of the store: the same records, returned in another order.
Reorderings ==
    {[k \in 1..Len(store) |-> store[f[k]]] :
        f \in {g \in [1..Len(store) -> 1..Len(store)] :
                  \A a, b \in 1..Len(store) : a # b => g[a] # g[b]}}

\* C15: the record returned depends only on the set of the guild's
\* tournament records, not on the order the store returns them in: every
\* two orderings of the same records select the same tournament.
C15_OrderIndependent ==
    Called => \A st \in Reorderings : getCurrentTournament(st, selGuild) = selResult

\* C16: a returned tournament is one of the records stored for this
\* GuildSettings' guildID and is active; an inactive tournament, or one of
\* another guild, is never returned, whatever the store holds and in
\* whatever order.
C16_ResultIsActiveOfGuild ==
    (Called /\ selResult.kind = "return" /\ selResult.value # Null) =>
        /\ \E i \in 1..Len(store) : store[i] = selResult.value[1]
        /\ selResult.value[1].guildID = selGuild
        /\ selResult.value[1].active

\* C16's case: the guild's active tournament was returned from between an
\* active tournament of another guild and an inactive one of its own.
C16_Witness ==
    /\ Called
    /\ Len(store) = 3
    /\ store[1].guildID = selGuild /\ store[1].active
    /\ store[2].guildID = selGuild /\ ~store[2].active
    /\ store[3].guildID # selGuild /\ store[3].active
    /\ selResult = Return(<<store[1]>>)

\* C18: getCurrentTournament only reads: across any call, whatever its
\* result, the stored records and their fields are unchanged, and the result
\* is a function of the stored collection and the guildID alone, so no
\* tournament state is kept between calls.
C18_SelectionOnlyReads ==
    [][/\ store' = store
       /\ selGuild' # NoGuild =>
             selResult' = getCurrentTournament(store, selGuild')]_vars

\* C18's case: a call on a collection holding records of both guilds, some
\* of them active, ended with an error.
C18_Witness ==
    /\ Called
    /\ Len(store) = 3
    /\ \E i, j \in 1..Len(store) : store[i].guildID # store[j].guildID
    /\ \E i \in 1..Len(store) : store[i].active
    /\ selResult = Throw(TypeError)

-----------------------------------------------------------------------------
(* Further claims about the profile command *)

\* The store holds no active tournament of guild g.
NoActiveTournament(g) ==
    \A i \in 1..Len(store) : ~(store[i].guildID = g /\ store[i].active)

\* C13: for a guild with no active tournament, every other collaborator call
\* succeeding, the solver returns SUCCESS_DETAILS with currentPoints -1, not
\* FAIL_UNKNOWN, and issues no current-tournament-points lookup.
C13_NoTournamentGivesPlaceholder ==
    (/\ spc = "done"
     /\ NoActiveTournament(sparams.guildId)
     /\ \A p \in {"client", "guild", "member", "contestant", "career"} :
           promise[p] = "resolved"
     /\ pvalue["tournament"] # <<CollaboratorError, "rejected">>)
    => /\ sres.kind = "return"
       /\ sres.value[1].status = "SUCCESS_DETAILS"
       /\ sres.value[1].body.currentPoints = 0 - 1
       /\ \A l \in lookups : l.call # "current"


\* The solver has been invoked and has not returned.
SolverRunning == spc \notin {"idle", "done"}

\* C14: provided every collaborator call eventually resolves or rejects,
\* every invocation of profileSolver eventually returns, one outcome, whose
\* status is SUCCESS_DETAILS or FAIL_UNKNOWN; SUCCESS_DETAILS only on runs in
\* which no collaborator call failed.
C14_SolverEventuallyReturns ==
    /\ SolverRunning ~> (spc = "done")
    /\ [](spc = "done" =>
            /\ sres.kind = "return"
            /\ sres.value[1].status \in {"SUCCESS_DETAILS", "FAIL_UNKNOWN"}
            /\ sres.value[1].status = "SUCCESS_DETAILS" =>
                  \A p \in PromiseNames : promise[p] # "rejected")
    /\ [](SolverRunning => sres = NotCalled)
    /\ [][spc = "done" /\ spc' = "done" => sres' = sres]_vars

\* C14's case: a run in which a lookup failed has returned FAIL_UNKNOWN.
C14_Witness ==
    /\ spc = "done"
    /\ promise["career"] = "rejected"
    /\ sres.kind = "return"
    /\ sres.value[1].status = "FAIL_UNKNOWN"


\* The order in which the solver awaits its promises (lines 96-113).
AwaitOrder ==
    <<"client", "guild", "contestant", "tournament", "current", "career", "member">>


\* The promises the returned solver has awaited: all of them after a
\* success, and after a failure those up to the first rejected one in await
\* order, where the catch block took over.
JoinedAtReturn ==
    LET rejected == {k \in 1..Len(AwaitOrder) : promise[AwaitOrder[k]] = "rejected"}
        failedAt == IF rejected = {} THEN Len(AwaitOrder)
                    ELSE CHOOSE k \in rejected : \A j \in rejected : k <= j
    IN  {AwaitOrder[k] : k \in 1..failedAt}

\* C17: when profileSolver has returned, no lookup it started is left
\* un-joined: none of the member fetch, career-points and current-points
\* lookups is still pending, and none has rejected without a handler
\* observing the rejection.
C17_NoLookupLeftUnjoined ==
    spc = "done" =>
        \A p \in {"member", "career", "current"} :
            /\ promise[p] # "pending"
            /\ promise[p] = "rejected" => p \in JoinedAtReturn


====
